---- MODULE Spec2Model ----
(***************************************************************************)
(* A model of grf.py (Github Release Fetcher v1.1b): one run of main(),    *)
(* from the parsing of the repository reference, through the release       *)
(* request, the include/exclude filter and the listing, to the sequential  *)
(* download of every selected asset by download_file_with_progress().      *)
(*                                                                         *)
(* Strings that the code splits on "/" are modelled as the sequence of     *)
(* their "/"-separated segments; the empty string is the empty sequence    *)
(* where the code tests it for truth (None and "" are both false).         *)
(* A file is the sequence of its bytes: 0 is a byte that was on disk       *)
(* before the run, 1 a byte this run wrote.                                *)
(***************************************************************************)
EXTENDS Integers, Sequences, FiniteSets, TLC

\* ------------------------------------------------------------------ bounds
\* Largest declared size (asset["size"]) of an asset, in bytes.
MaxSize == 2
\* Largest size of a file that is on disk before the run, in bytes.
MaxFile == 3
\* Largest number of body bytes (and largest Content-Length) of a response.
MaxBody == 3
\* Bytes per response.read(): chunk_size (1 MiB in the code) at the model's scale.
ChunkBytes == 2
\* Largest number of assets in a release manifest.
MaxAssets == 2
\* Path segments before and after the releases/tag part of a reference.
MaxHeadSegs == 2
MaxTailSegs == 2
\* Invocations of the tool on the same output directory, one after another.
MaxRuns == 2

\* ------------------------------------------------------------- sequences
SeqsUpTo(S, n) == UNION {[1..k -> S] : k \in 0..n}

RECURSIVE Repeat(_, _)
Repeat(x, n) == IF n = 0 THEN <<>> ELSE <<x>> \o Repeat(x, n - 1)

Min(a, b) == IF a < b THEN a ELSE b

\* ------------------------------------------------------------ references
\* repo_url is [style, segs]: style is the prefix the url starts with ("api" for
\* https://api.github.com/repos/, "web" for https://github.com/, "other" for
\* neither) and segs is what str.split("/") makes of the rest, which is never
\* the empty list: "".split("/") is [""].
ApiPrefix == "api"
WebPrefix == "web"

\* str.split("/") of the text after the prefix.
Parts(repo_url) == repo_url.segs

\* "releases/tag/" in repo_url: a segment "releases", then a segment "tag", then
\* the "/" that opens one more segment.
TagMarkers(segs) ==
    {i \in 1..(Len(segs) - 2) : segs[i] = "releases" /\ segs[i + 1] = "tag"}

HasTagMarker(repo_url) == TagMarkers(Parts(repo_url)) # {}

\* str.strip("/"): the leading and the trailing empty segments go; a string of
\* nothing but "/" becomes "".
RECURSIVE LStrip(_)
LStrip(s) == IF s # <<>> /\ Head(s) = "" THEN LStrip(Tail(s)) ELSE s

RECURSIVE RStrip(_)
RStrip(s) ==
    IF s # <<>> /\ s[Len(s)] = "" THEN RStrip(SubSeq(s, 1, Len(s) - 1)) ELSE s

Strip(s) == RStrip(LStrip(s))

\* repo_url.split("releases/tag/")[-1].strip("/"): what follows the last marker.
UrlReleaseTag(repo_url) ==
    LET segs == Parts(repo_url)
        last == CHOOSE i \in TagMarkers(segs) : \A j \in TagMarkers(segs) : j <= i
    IN  Strip(SubSeq(segs, last + 2, Len(segs)))

\* A slip in line 117: == for !=.
TagsConflict_Inverted(release_tag, url_release_tag) ==
    release_tag # <<>> /\ release_tag = url_release_tag

\* Line 117: --release was given and is not the tag of the url.
TagsConflict(release_tag, url_release_tag) ==
    release_tag # <<>> /\ release_tag # url_release_tag

\* The outcome of lines 99-130: an error, or the api_url to request.
\* release_tag is args.release (<<>> when absent or empty).
ResolveReference(repo_url, release_tag) ==
    IF repo_url.style = ApiPrefix THEN
        IF Len(Parts(repo_url)) < 2
        THEN [error |-> "Invalid GitHub API URL.", api_url |-> <<>>]
        ELSE [error |-> "",
              api_url |-> <<Parts(repo_url)[1], Parts(repo_url)[2], "releases">>
                          \o (IF release_tag # <<>>
                              THEN <<"tags">> \o release_tag ELSE <<"latest">>)]
    ELSE IF repo_url.style = WebPrefix THEN
        IF Len(Parts(repo_url)) < 2
        THEN [error |-> "Invalid GitHub repository URL.", api_url |-> <<>>]
        ELSE LET embedded == HasTagMarker(repo_url)
                 url_release_tag == IF embedded THEN UrlReleaseTag(repo_url) ELSE <<>>
                 tag == IF embedded THEN url_release_tag ELSE release_tag
             IN  IF embedded /\ TagsConflict(release_tag, url_release_tag)
                 THEN [error |-> "Error: Conflicting release tags.", api_url |-> <<>>]
                 ELSE [error |-> "",
                       api_url |-> <<Parts(repo_url)[1], Parts(repo_url)[2], "releases">>
                                   \o (IF tag # <<>>
                                       THEN <<"tags">> \o tag ELSE <<"latest">>)]
    ELSE [error |-> "Unsupported URL format.", api_url |-> <<>>]

\* -------------------------------------------------------------- manifest
\* An asset record of the release JSON: keys is the set of the keys it holds.
AssetKeys == {"name", "size", "browser_download_url"}

Asset(n, sz) == [name |-> n, size |-> sz, keys |-> AssetKeys]

\* [asset for asset in assets if asset["name"] in include]
RECURSIVE Including(_, _)
Including(assets, include) ==
    IF assets = <<>> THEN <<>>
    ELSE (IF Head(assets).name \in include THEN <<Head(assets)>> ELSE <<>>)
         \o Including(Tail(assets), include)

\* A slip in line 148: "in" for "not in".
Excluding_KeepsNamed(assets, exclude) == Including(assets, exclude)

\* [asset for asset in assets if asset["name"] not in exclude]
RECURSIVE Excluding(_, _)
Excluding(assets, exclude) ==
    IF assets = <<>> THEN <<>>
    ELSE (IF Head(assets).name \notin exclude THEN <<Head(assets)>> ELSE <<>>)
         \o Excluding(Tail(assets), exclude)

\* A slip in line 141: the check never fires, and --include wins.
FiltersConflict_Never(include, exclude) == FALSE

\* A slip in line 141: only a name given to both options is a conflict.
FiltersConflict_OnlyOnOverlap(include, exclude) == include \cap exclude # {}

\* Line 141: both options were given.
FiltersConflict(include, exclude) == include # {} /\ exclude # {}

\* filter_assets: include and exclude are the argparse lists (nargs="+"), taken
\* as sets; {} is an option that was not given (None). The result is an error
\* message (sys.exit(1)), an uncaught exception, or the filtered list.
filter_assets(assets, include, exclude) ==
    IF FiltersConflict(include, exclude)
    THEN [error |-> "Error: --include and --exclude are mutually exclusive.",
          raised |-> "", assets |-> <<>>]
    ELSE IF (include # {} \/ exclude # {})
            /\ \E i \in 1..Len(assets) : "name" \notin assets[i].keys
    THEN [error |-> "", raised |-> "KeyError", assets |-> <<>>]
    ELSE IF include # {}
    THEN [error |-> "", raised |-> "", assets |-> Including(assets, include)]
    ELSE IF exclude # {}
    THEN [error |-> "", raised |-> "", assets |-> Excluding(assets, exclude)]
    ELSE [error |-> "", raised |-> "", assets |-> assets]

\* ------------------------------------------------------------- exceptions
\* What urllib.request.urlopen raises: HTTPError on an error status, URLError
\* when the request cannot be sent, and, unwrapped, what http.client raises
\* while it waits for the response (RemoteDisconnected).
OpenErrors == {"HTTPError", "URLError", "RemoteDisconnected"}

\* What response.read() raises while the body streams: http.client's and the
\* socket's own exceptions, none of which urllib wraps.
ReadErrors == {"ConnectionResetError", "IncompleteRead"}

\* except (HTTPError, URLError)
Caught(exc) == exc \in {"HTTPError", "URLError"}

\* ------------------------------------------------------------------ state
VARIABLES
    args,          \* argparse's result: url, release, download, include, exclude
    server,        \* the release JSON the API serves for this repository
    fs,            \* the output directory: asset name -> file (exists, data)
    pc,            \* where main() is
    api_url,       \* fetch_release_data's api_url
    release_data,  \* main's release_data
    assets,        \* main's assets
    idx,           \* position of the download loop in assets
    dl,            \* download_file_with_progress's locals
    net,           \* the requests issued so far, in order
    stdout,        \* the messages printed so far, in order
    results,       \* per selected asset: how its download ended
    handles,       \* the handles that are open: "response", "target_file"
    exit_code,     \* the process's exit status (-1 while it runs)
    fs0,           \* the output directory as the run found it
    uncaught,      \* the exception that ended the run ("" when none did)
    runs,          \* the number of invocations so far, this one included
    prev,          \* results of the invocation before this one (<<>> if none)
    honest         \* so far every download was answered by a server that
                   \* honours Range and delivers the whole asset, and no
                   \* transfer or file operation failed on its own

vars == <<args, server, fs, pc, api_url, release_data, assets, idx, dl, net,
          stdout, results, handles, exit_code, fs0, uncaught, runs, prev, honest>>

\* ----------------------------------------------------------------- inputs
AllNames == <<"a.zip", "b.zip", "c.zip", "d.zip">>

AssetNames == {AllNames[i] : i \in 1..Min(MaxAssets, Len(AllNames))}

\* A name no asset has.
NoSuchName == "zz.zip"

Absent == [exists |-> FALSE, data |-> <<>>]

OldFile(n) == [exists |-> TRUE, data |-> Repeat(0, n)]

FileStates == {Absent} \cup {OldFile(n) : n \in 0..MaxFile}

NoFiles == [n \in AssetNames |-> Absent]

\* References: every text of the shape head [/releases/tag|tags|latest] tail
\* after either prefix, trailing and doubled slashes included, and a reference
\* with neither prefix.
HeadSegs == {"", "acme", "tool"}

TailSegs == {"", "v1"}

Mids == {<<>>, <<"releases", "tag">>, <<"releases", "tags">>, <<"releases", "latest">>}

NonEmptySegs(s) == IF s = <<>> THEN <<"">> ELSE s

RefSegs ==
    {NonEmptySegs(h \o m \o t) : h \in SeqsUpTo(HeadSegs, MaxHeadSegs), m \in Mids,
                                 t \in SeqsUpTo(TailSegs, MaxTailSegs)}

RefSet ==
    {[style |-> st, segs |-> sg] : st \in {ApiPrefix, WebPrefix}, sg \in RefSegs}
    \cup {[style |-> "other", segs |-> <<"acme", "tool">>]}

GoodRef == [style |-> WebPrefix, segs |-> <<"acme", "tool">>]

\* --release: absent, or a tag.
ReqTags == {<<>>, <<"v1">>, <<"v2">>}

\* Manifests: asset lists of distinct names.
DistinctLists(S) ==
    {l \in SeqsUpTo(S, MaxAssets) : \A i, j \in 1..Len(l) : l[i] = l[j] => i = j}

Release(as) == [tag_name |-> TRUE, assets |-> as]

\* One asset, every declared size.
SingleReleases == {Release(<<Asset("a.zip", sz)>>) : sz \in 0..MaxSize}

\* Several assets of one byte each, in every order.
BatchReleases ==
    {Release([i \in 1..Len(l) |-> Asset(l[i], 1)]) : l \in DistinctLists(AssetNames)}

\* A release JSON without tag_name, or with one asset record that lacks a key.
BadReleases ==
    {[tag_name |-> FALSE, assets |-> <<Asset("a.zip", 1)>>]}
    \cup {Release([i \in 1..Len(l) |->
                     IF i = bad THEN [Asset(l[i], 1) EXCEPT !.keys = AssetKeys \ {k}]
                     ELSE Asset(l[i], 1)]) :
            l \in DistinctLists(AssetNames) \ {<<>>}, bad \in 1..MaxAssets, k \in AssetKeys}

\* release_data before the release request has returned.
NoData == [tag_name |-> FALSE, assets |-> <<>>]

Args(u, r, d, i, e) ==
    [url |-> u, release |-> r, download |-> d, include |-> i, exclude |-> e]

Idle ==
    [existing_size |-> 0, ranged |-> FALSE, mode |-> "", status |-> 0, cl |-> 0,
     body |-> 0, remaining |-> 0, file_size |-> 0, bytes_so_far |-> 0, percent |-> 0]

\* The inputs of a run, in five families: every reference and tag against one
\* plain release whose asset is on disk already; every filter against every batch; every declared size and
\* file on disk for one asset; batches of assets to download in sequence; release
\* JSON of an unexpected structure.
InitInputs ==
    \/ /\ args \in {Args(u, r, d, {}, {}) : u \in RefSet, r \in ReqTags, d \in BOOLEAN}
       /\ server = Release(<<Asset("a.zip", 1)>>)
       /\ fs = [NoFiles EXCEPT !["a.zip"] = OldFile(1)]
    \/ /\ args \in {Args(GoodRef, <<>>, d, i, e) :
                      d \in BOOLEAN, i \in SUBSET (AssetNames \cup {NoSuchName}),
                      e \in SUBSET (AssetNames \cup {NoSuchName})}
       /\ args.download => (args.include # {} /\ args.exclude # {})
       /\ server \in BatchReleases
       /\ fs = NoFiles
    \/ /\ args = Args(GoodRef, <<>>, TRUE, {}, {})
       /\ server \in SingleReleases
       /\ fs \in {[NoFiles EXCEPT !["a.zip"] = f] : f \in FileStates}
    \/ /\ args \in {Args(GoodRef, <<>>, TRUE, i, e) :
                      i \in {{}, {"a.zip"}}, e \in {{}, {"a.zip"}}}
       /\ ~(args.include # {} /\ args.exclude # {})
       /\ server \in BatchReleases
       /\ fs \in [AssetNames -> {Absent, OldFile(1)}]
    \/ /\ args \in {Args(GoodRef, <<>>, d, i, {}) : d \in BOOLEAN, i \in {{}, {"a.zip"}}}
       /\ server \in BadReleases
       /\ fs = NoFiles

Init ==
    /\ InitInputs
    /\ pc = "resolve"
    /\ api_url = <<>>
    /\ release_data = NoData
    /\ assets = <<>>
    /\ idx = 0
    /\ dl = Idle
    /\ net = <<>>
    /\ stdout = <<>>
    /\ results = <<>>
    /\ handles = {}
    /\ exit_code = -1
    /\ fs0 = fs
    /\ uncaught = ""
    /\ runs = 1
    /\ prev = <<>>
    /\ honest = TRUE

\* ---------------------------------------------------------------- helpers
Say(msg, about) == stdout' = Append(stdout, [msg |-> msg, about |-> about])

\* sys.exit(1) after a printed message.
Exit1 ==
    /\ pc' = "exit"
    /\ exit_code' = 1
    /\ uncaught' = uncaught

\* An exception nothing catches: the traceback, and exit status 1.
Crash(exc) ==
    /\ pc' = "exit"
    /\ exit_code' = 1
    /\ uncaught' = exc

Continue(next) ==
    /\ pc' = next
    /\ exit_code' = exit_code
    /\ uncaught' = uncaught

asset == assets[idx]

target_path == asset.name

Result(o, f) == [outcome |-> o, fault |-> f]

\* ------------------------------------------------------ fetch_release_data
\* Lines 99-130: the reference is parsed and api_url built.
Resolve ==
    /\ pc = "resolve"
    /\ LET r == ResolveReference(args.url, args.release)
       IN  IF r.error # ""
           THEN /\ Say(r.error, "")
                /\ Exit1
                /\ api_url' = api_url
           ELSE /\ api_url' = r.api_url
                /\ Continue("fetch")
                /\ stdout' = stdout
    /\ UNCHANGED <<args, server, fs, release_data, assets, idx, dl, net, results,
                   handles, fs0>>
    /\ UNCHANGED <<runs, prev, honest>>

\* Lines 132-137: the one release request and what comes of it.
FetchRelease ==
    /\ pc = "fetch"
    /\ net' = Append(net, [kind |-> "release", target |-> api_url, range |-> -1])
    /\ \/ /\ \E exc \in OpenErrors \cup ReadErrors :
               IF Caught(exc)
               THEN Say("Error fetching release data", "") /\ Exit1
               ELSE Crash(exc) /\ stdout' = stdout
          /\ release_data' = release_data
          /\ honest' = FALSE
       \/ \* json.loads on a body that is not JSON
          /\ Crash("JSONDecodeError")
          /\ UNCHANGED <<stdout, release_data>>
          /\ honest' = FALSE
       \/ /\ release_data' = server
          /\ Continue("manifest")
          /\ stdout' = stdout
          /\ honest' = honest
    /\ UNCHANGED <<args, server, fs, api_url, assets, idx, dl, results, handles, fs0>>
    /\ UNCHANGED <<runs, prev>>

\* ------------------------------------------------------------------- main
\* Lines 168-169: release_data["tag_name"], release_data.get("assets", []).
ReadManifest ==
    /\ pc = "manifest"
    /\ IF ~release_data.tag_name
       THEN Crash("KeyError") /\ assets' = assets
       ELSE Continue("filter") /\ assets' = release_data.assets
    /\ UNCHANGED <<args, server, fs, api_url, release_data, idx, dl, net, stdout,
                   results, handles, fs0>>
    /\ UNCHANGED <<runs, prev, honest>>

\* Line 172.
FilterAssets ==
    /\ pc = "filter"
    /\ LET f == filter_assets(assets, args.include, args.exclude)
       IN  IF f.error # ""
           THEN Say(f.error, "") /\ Exit1 /\ assets' = assets
           ELSE IF f.raised # ""
           THEN Crash(f.raised) /\ UNCHANGED <<stdout, assets>>
           ELSE Continue("list") /\ assets' = f.assets /\ stdout' = stdout
    /\ UNCHANGED <<args, server, fs, api_url, release_data, idx, dl, net, results,
                   handles, fs0>>
    /\ UNCHANGED <<runs, prev, honest>>

\* The number of assets the listing prints before asset['name'] or
\* asset['size'] raises KeyError (all of them when none does).
Listed(as) ==
    LET bad == {i \in 1..Len(as) : ~({"name", "size"} \subseteq as[i].keys)}
    IN  IF bad = {} THEN Len(as)
        ELSE (CHOOSE i \in bad : \A j \in bad : i <= j) - 1

\* Lines 174-177: the listing, always printed.
Listing ==
    /\ pc = "list"
    /\ stdout' = stdout \o <<[msg |-> "Release:", about |-> ""]>>
                        \o [i \in 1..Listed(assets) |->
                              [msg |-> "Files:", about |-> assets[i].name]]
    /\ IF Listed(assets) < Len(assets) THEN Crash("KeyError") ELSE Continue("start")
    /\ UNCHANGED <<args, server, fs, api_url, release_data, assets, idx, dl, net,
                   results, handles, fs0>>
    /\ UNCHANGED <<runs, prev, honest>>

\* A slip in line 180: the flag is not looked at.
DownloadWanted_Always(a) == TRUE

\* Line 180: args.download.
DownloadWanted(a) == a.download

\* Lines 180-183: nothing is downloaded unless --download was given.
StartDownloads ==
    /\ pc = "start"
    /\ IF ~DownloadWanted(args)
       THEN /\ pc' = "exit"
            /\ exit_code' = 0
            /\ UNCHANGED <<idx, results, stdout>>
       ELSE /\ pc' = "loop"
            /\ exit_code' = exit_code
            /\ idx' = 1
            /\ results' = [i \in 1..Len(assets) |-> Result("NotAttempted", "")]
            /\ Say("Downloading files to:", "")
    /\ UNCHANGED <<args, server, fs, api_url, release_data, assets, dl, net,
                   handles, fs0, uncaught>>
    /\ UNCHANGED <<runs, prev, honest>>

\* Lines 185-189: the next asset of the loop, up to the call; main returns
\* when the list is exhausted.
NextAsset ==
    /\ pc = "loop"
    /\ IF idx > Len(assets)
       THEN /\ pc' = "exit"
            /\ exit_code' = 0
            /\ UNCHANGED <<uncaught, stdout, results>>
       ELSE IF "browser_download_url" \notin asset.keys
       THEN /\ Crash("KeyError")
            /\ UNCHANGED <<stdout, results>>
       ELSE /\ Continue("probe")
            /\ Say("Downloading:", asset.name)
            /\ results' = [results EXCEPT ![idx] = Result("Started", "")]
    /\ UNCHANGED <<args, server, fs, api_url, release_data, assets, idx, dl, net,
                   handles, fs0>>
    /\ UNCHANGED <<runs, prev, honest>>

\* ---------------------------------------------- download_file_with_progress
\* Line 47: the file on disk is taken to be complete.
AlreadyComplete(expected_size, existing_size) ==
    expected_size # 0 /\ existing_size = expected_size

\* Line 88: the size check after the transfer.
SizeMismatch(expected_size, actual_size) ==
    expected_size # 0 /\ actual_size # expected_size

\* A slip in lines 50-52: what is on disk is not looked at.
Request_Fresh(exists, existing_size) ==
    [Idle EXCEPT !.existing_size = 0, !.ranged = FALSE, !.mode = "wb"]

\* Lines 50-56: the request and the open mode, from what is on disk.
Request(exists, existing_size) ==
    IF exists
    THEN [Idle EXCEPT !.existing_size = existing_size, !.ranged = TRUE, !.mode = "ab"]
    ELSE [Idle EXCEPT !.existing_size = 0, !.ranged = FALSE, !.mode = "wb"]

\* A slip in line 52: the resumed file is opened "wb" too.
Opened_Truncates(file, mode) == [exists |-> TRUE, data |-> <<>>]

\* open(target_path, mode): "wb" creates or truncates, "ab" keeps what is there.
Opened(file, mode) ==
    IF mode = "wb" THEN [exists |-> TRUE, data |-> <<>>]
    ELSE [exists |-> TRUE, data |-> file.data]

\* target_file.write(chunk) of n bytes.
Written(file, n) == [file EXCEPT !.data = file.data \o Repeat(1, n)]

\* The responses a server may give: the status, the Content-Length header (0
\* when there is none, as line 59 reads it) and the bytes the body delivers,
\* which http.client caps at a Content-Length that is given.
Responses(ranged) ==
    {r \in [status : IF ranged THEN {200, 206} ELSE {200},
            cl : 0..MaxBody, body : 0..MaxBody] : r.cl > 0 => r.body <= r.cl}

\* The download of assets[idx] ends and the loop goes on.
Return(o, f) ==
    /\ results' = [results EXCEPT ![idx] = Result(o, f)]
    /\ idx' = idx + 1
    /\ dl' = Idle
    /\ Continue("loop")

\* An exception inside the try of download_file_with_progress: line 93 catches
\* it, or it leaves download_file_with_progress and main.
Raise(exc, f) ==
    IF Caught(exc)
    THEN /\ Say("Error: Failed to download", target_path)
         /\ Return("TransferFailed", f)
    ELSE /\ results' = [results EXCEPT ![idx] = Result("Crashed", f)]
         /\ Crash(exc)
         /\ UNCHANGED <<stdout, idx, dl>>

\* Lines 45-56.
Probe ==
    /\ pc = "probe"
    /\ LET file == fs[target_path]
           existing_size == Len(file.data)
       IN  IF file.exists /\ AlreadyComplete(asset.size, existing_size)
           THEN /\ Say("File already exists and matches expected size:", target_path)
                /\ Return("AlreadyComplete", "")
           ELSE /\ dl' = Request(file.exists, existing_size)
                /\ Continue("urlopen")
                /\ UNCHANGED <<stdout, results, idx>>
    /\ UNCHANGED <<args, server, fs, api_url, release_data, assets, net, handles, fs0>>
    /\ UNCHANGED <<runs, prev, honest>>

\* What a server that honours Range and delivers the whole asset, of the
\* declared size, answers: the rest of the asset with status 206 to a range
\* that starts inside it, the whole asset with status 200 to a plain request.
HonestAnswer(ranged, existing_size, size) ==
    IF ranged
    THEN [status |-> 206, cl |-> size - existing_size, body |-> size - existing_size]
    ELSE [status |-> 200, cl |-> size, body |-> size]

\* Such a server refuses, with status 416, a range that starts at or after the
\* end of the asset, and refuses nothing else.
HonestRefusal(exc, ranged, existing_size, size) ==
    exc = "HTTPError" /\ ranged /\ existing_size >= size

\* Line 58, urllib.request.urlopen(req): the request goes out; the server
\* answers, or the request fails.
UrlOpen ==
    /\ pc = "urlopen"
    /\ net' = Append(net, [kind |-> "download", target |-> <<target_path>>,
                           range |-> IF dl.ranged THEN dl.existing_size ELSE -1])
    /\ \/ /\ \E exc \in OpenErrors :
               /\ Raise(exc, "request")
               /\ honest' = (honest /\ HonestRefusal(exc, dl.ranged, dl.existing_size,
                                                     asset.size))
          /\ handles' = handles
       \/ /\ \E r \in Responses(dl.ranged) :
               /\ dl' = [dl EXCEPT !.status = r.status, !.cl = r.cl, !.body = r.body,
                                   !.remaining = r.body]
               /\ honest' = (honest /\ ~(dl.ranged /\ dl.existing_size >= asset.size)
                             /\ r = HonestAnswer(dl.ranged, dl.existing_size, asset.size))
          /\ handles' = {"response"}
          /\ Continue("open")
          /\ UNCHANGED <<stdout, results, idx>>
    /\ UNCHANGED <<args, server, fs, api_url, release_data, assets, fs0>>
    /\ UNCHANGED <<runs, prev>>

\* A slip in line 58: only the target file is opened in the with statement.
WithExit_LeavesResponse(hs) == hs \ {"target_file"}

\* The with statement of line 58 is left, by its end, a break or an
\* exception: what it opened is closed.
WithExit(hs) == hs \ {"response", "target_file"}

\* A slip in line 59: the bytes already on disk are left out of the total.
TotalSize_OfResponse(content_length, existing_size) == content_length

\* Line 59: file_size.
TotalSize(content_length, existing_size) == content_length + existing_size

\* Line 71 as line 81 shows it: int(percent_complete).
Percent(bytes_so_far, file_size) == (bytes_so_far * 100) \div file_size

\* Line 58, open(target_path, mode), and lines 59-62. When open() raises
\* (OSError is not caught), the with statement closes the response.
OpenTarget ==
    /\ pc = "open"
    /\ \/ /\ handles' = WithExit(handles)
          /\ Raise("PermissionError", "open")
          /\ fs' = fs
          /\ honest' = FALSE
       \/ /\ fs' = [fs EXCEPT ![target_path] = Opened(@, dl.mode)]
          /\ handles' = handles \cup {"target_file"}
          /\ dl' = [dl EXCEPT !.file_size = TotalSize(dl.cl, dl.existing_size),
                              !.bytes_so_far = dl.existing_size]
          /\ Continue("stream")
          /\ UNCHANGED <<stdout, results, idx, honest>>
    /\ UNCHANGED <<args, server, api_url, release_data, assets, net, fs0>>
    /\ UNCHANGED <<runs, prev>>

\* Lines 64-85, one response.read(chunk_size): a chunk that is written and
\* reported, the end of the body, or a transport failure. Leaving the with
\* block, by break or by exception, closes both handles.
ReadChunk ==
    /\ pc = "stream"
    /\ \/ /\ dl.remaining > 0
          /\ LET n == Min(ChunkBytes, dl.remaining)
                 bytes_so_far == dl.bytes_so_far + n
             IN  /\ fs' = [fs EXCEPT ![target_path] = Written(@, n)]
                 /\ IF dl.file_size = 0
                    THEN /\ Raise("ZeroDivisionError", "progress")
                         /\ handles' = WithExit(handles)
                    ELSE /\ dl' = [dl EXCEPT !.remaining = dl.remaining - n,
                                             !.bytes_so_far = bytes_so_far,
                                             !.percent =
                                                 Percent(bytes_so_far, dl.file_size)]
                         /\ Continue("stream")
                         /\ UNCHANGED <<stdout, results, idx, handles>>
          /\ honest' = honest
       \/ /\ dl.remaining = 0
          /\ handles' = WithExit(handles)
          /\ Continue("verify")
          /\ UNCHANGED <<fs, dl, stdout, results, idx, honest>>
       \/ /\ dl.cl = 0 \/ dl.bytes_so_far - dl.existing_size < dl.cl
          /\ \E exc \in ReadErrors : Raise(exc, "stream")
          /\ handles' = WithExit(handles)
          /\ fs' = fs
          /\ honest' = FALSE
    /\ UNCHANGED <<args, server, api_url, release_data, assets, net, fs0>>
    /\ UNCHANGED <<runs, prev>>

\* Lines 87-91.
Verify ==
    /\ pc = "verify"
    /\ IF SizeMismatch(asset.size, Len(fs[target_path].data))
       THEN /\ Say("Error: File size mismatch for", target_path)
            /\ Return("SizeMismatch", "")
       ELSE /\ Say("Done:", target_path)
            /\ Return("Completed", "")
    /\ UNCHANGED <<args, server, fs, api_url, release_data, assets, net, handles, fs0>>
    /\ UNCHANGED <<runs, prev, honest>>

Next ==
    \/ Resolve
    \/ FetchRelease
    \/ ReadManifest
    \/ FilterAssets
    \/ Listing
    \/ StartDownloads
    \/ NextAsset
    \/ Probe
    \/ UrlOpen
    \/ OpenTarget
    \/ ReadChunk
    \/ Verify

Spec == Init /\ [][Next]_vars

\* ------------------------------------------------------------ re-invocation
\* The tool is run again, with the same arguments, on the output directory
\* the run before left: the only way the code offers to retry.
Reinvoke ==
    /\ pc = "exit"
    /\ runs < MaxRuns
    /\ runs' = runs + 1
    /\ prev' = results
    /\ fs0' = fs
    /\ pc' = "resolve"
    /\ api_url' = <<>>
    /\ release_data' = NoData
    /\ assets' = <<>>
    /\ idx' = 0
    /\ dl' = Idle
    /\ net' = <<>>
    /\ stdout' = <<>>
    /\ results' = <<>>
    /\ handles' = {}
    /\ exit_code' = -1
    /\ uncaught' = ""
    /\ UNCHANGED <<args, server, fs, honest>>

\* One asset, every declared size and every file on disk, downloaded by
\* successive invocations.
InitRerun ==
    /\ Init
    /\ args = Args(GoodRef, <<>>, TRUE, {}, {})
    /\ server \in SingleReleases

NextRerun ==
    \/ Resolve
    \/ FetchRelease
    \/ ReadManifest
    \/ FilterAssets
    \/ Listing
    \/ StartDownloads
    \/ NextAsset
    \/ Probe
    \/ UrlOpen
    \/ OpenTarget
    \/ ReadChunk
    \/ Verify
    \/ Reinvoke

SpecRerun == InitRerun /\ [][NextRerun]_vars

\* ============================================================== properties
Selected == 1..Len(results)

NameOf(i) == assets[i].name

DownloadRequests(n) ==
    {k \in 1..Len(net) : net[k].kind = "download" /\ net[k].target = <<n>>}

Printed(msg, about) ==
    \E k \in 1..Len(stdout) : stdout[k] = [msg |-> msg, about |-> about]

Attempted(i) == results[i].outcome # "NotAttempted"

TransportFault(i) == results[i].fault \in {"request", "stream"}

PerAssetFailure(i) == TransportFault(i) \/ results[i].outcome = "SizeMismatch"

FailureReported(i) ==
    \/ Printed("Error: Failed to download", NameOf(i))
    \/ Printed("Error: File size mismatch for", NameOf(i))

IsPrefix(s, t) == Len(s) <= Len(t) /\ SubSeq(t, 1, Len(s)) = s

\* C1: when the run has ended, every asset whose download ended in a per-asset
\* failure (a transport failure at request time or while streaming, or a size
\* mismatch) had that failure reported (by its message or, at the least, by
\* the traceback), and every selected asset after it was attempted. The code
\* does not keep this: line 93 catches only HTTPError and URLError, and a
\* failure http.client raises ends main.
C1_FailureDoesNotEndBatch ==
    pc = "exit" =>
        \A i \in Selected :
            PerAssetFailure(i) =>
                /\ FailureReported(i) \/ uncaught # ""
                /\ \A j \in Selected : j > i => Attempted(j)

\* C2: an asset whose target file was on disk with exactly the declared size,
\* zero included, gets no download request and its file stays as it was. The
\* code does not keep this for a declared size of 0 (line 47 tests
\* expected_size for truth).
C2_CompleteFileIsSkipped ==
    \A i \in Selected :
        (fs0[NameOf(i)].exists /\ Len(fs0[NameOf(i)].data) = assets[i].size) =>
            /\ DownloadRequests(NameOf(i)) = {}
            /\ fs[NameOf(i)] = fs0[NameOf(i)]
            /\ results[i].outcome \in {"NotAttempted", "Started", "AlreadyComplete"}

\* The download in progress resumes a file of E bytes, E below the declared
\* size, and its stream is exhausted.
ResumedAndExhausted ==
    /\ pc = "verify"
    /\ fs0[target_path].exists
    /\ Len(fs0[target_path].data) < asset.size

\* Exactly one request went out for the asset being downloaded, with the
\* range header bytes=E-, and the first E bytes of its file are unchanged.
OneRangedRequestAndAppend ==
    /\ Cardinality(DownloadRequests(target_path)) = 1
    /\ \A k \in DownloadRequests(target_path) :
           net[k].range = Len(fs0[target_path].data)
    /\ IsPrefix(fs0[target_path].data, fs[target_path].data)

\* C3 as stated: after a resumed stream is exhausted the file size is E plus
\* the response's Content-Length.
C3_ResumeAddsContentLength ==
    ResumedAndExhausted =>
        /\ OneRangedRequestAndAppend
        /\ Len(fs[target_path].data) = Len(fs0[target_path].data) + dl.cl

\* C3, amended: after a resumed stream is exhausted there was exactly one
\* request, with range bytes=E-, the first E bytes are unchanged and the file
\* size is E plus the number of body bytes the response delivered, which is E
\* plus the Content-Length when the body delivers exactly Content-Length bytes.
C3_ResumeAddsBody ==
    ResumedAndExhausted =>
        /\ OneRangedRequestAndAppend
        /\ Len(fs[target_path].data) = Len(fs0[target_path].data) + dl.body
        /\ dl.body = dl.cl =>
               Len(fs[target_path].data) = Len(fs0[target_path].data) + dl.cl

\* C3's case: one byte on disk of two declared, one byte appended.
C3_Witness ==
    /\ ResumedAndExhausted
    /\ Len(fs0[target_path].data) = 1
    /\ asset.size = 2
    /\ dl.cl = 1
    /\ fs[target_path].data = <<0, 1>>

\* C4: Completed is reported only with the file at the declared size (zero
\* included), and SizeMismatch only with the file at another size. The code
\* does not keep this for a declared size of 0 (line 88 tests expected_size
\* for truth).
C4_DoneIffSizeMatches ==
    \A i \in Selected :
        /\ results[i].outcome = "Completed" =>
               Len(fs[NameOf(i)].data) = assets[i].size
        /\ results[i].outcome = "SizeMismatch" =>
               Len(fs[NameOf(i)].data) # assets[i].size

\* C5: a transport failure of an asset's download, at request time or while
\* the body streams, ends it as TransferFailed, reported, with the file
\* neither deleted nor truncated, and unchanged when the request failed. The
\* code does not keep the outcome: see C1.
C5_TransportFailureIsTransferFailed ==
    \A i \in Selected :
        TransportFault(i) =>
            /\ results[i].outcome = "TransferFailed"
            /\ Printed("Error: Failed to download", NameOf(i))
            /\ results[i].fault = "request" => fs[NameOf(i)] = fs0[NameOf(i)]
            /\ results[i].fault = "stream" =>
                   /\ fs[NameOf(i)].exists
                   /\ fs0[NameOf(i)].exists =>
                          IsPrefix(fs0[NameOf(i)].data, fs[NameOf(i)].data)

\* A release tag as a reference embeds it: one or more non-empty segments.
Tags == SeqsUpTo(TailSegs \ {""}, MaxTailSegs) \ {<<>>}

\* segs holds "releases", then marker, at k, and after them the tag T and
\* nothing else but, at most, a trailing slash.
EmbedsAt(segs, k, marker, T) ==
    /\ k + 2 <= Len(segs)
    /\ segs[k] = "releases"
    /\ segs[k + 1] = marker
    /\ SubSeq(segs, k + 2, Len(segs)) \in {T, T \o <<"">>}

\* The reference is web-style and its path contains releases/tag/T.
WebEmbeds(T) ==
    /\ args.url.style = WebPrefix
    /\ \E k \in 1..Len(args.url.segs) : EmbedsAt(args.url.segs, k, "tag", T)

ConflictingTags ==
    \E T \in Tags : WebEmbeds(T) /\ args.release # <<>> /\ args.release # T

\* C6: a web-style reference that embeds the tag T, with --release R and
\* R # T, is refused with the conflicting-tag error, and the run makes no
\* request at all.
C6_ConflictingTagFails ==
    ConflictingTags =>
        /\ net = <<>>
        /\ pc \in {"resolve", "exit"}
        /\ pc = "exit" =>
               /\ exit_code = 1
               /\ Printed("Error: Conflicting release tags.", "")

\* C6's case: .../releases/tag/v1 with --release v2 and --download, refused.
C6_Witness ==
    /\ WebEmbeds(<<"v1">>)
    /\ args.release = <<"v2">>
    /\ args.download
    /\ pc = "exit"

MalformedReference ==
    args.url.style \in {ApiPrefix, WebPrefix} /\ Len(args.url.segs) < 2

UnsupportedReference == args.url.style \notin {ApiPrefix, WebPrefix}

ConflictingFilters == args.include # {} /\ args.exclude # {}

\* The release request went out and brought no release data back.
FetchFailed == net # <<>> /\ release_data = NoData

DownloadSteps == {"start", "loop", "probe", "urlopen", "open", "stream", "verify"}

NoDownloadAndNoFileChange ==
    /\ \A k \in 1..Len(net) : net[k].kind # "download"
    /\ fs = fs0
    /\ pc \notin DownloadSteps

\* C7: in a run with a malformed or unsupported reference, conflicting tags,
\* conflicting filters or a failed release fetch, no download request is
\* issued, no file is created or changed, the run never reaches the download
\* loop, it goes on until it ends, and it ends with exit status 1: at once for
\* a bad reference, right after the fetch for a failed fetch, in
\* filter_assets at the latest for conflicting filters.
C7_FatalErrorsEndTheRun ==
    /\ (MalformedReference \/ UnsupportedReference \/ ConflictingTags) =>
           /\ NoDownloadAndNoFileChange
           /\ net = <<>>
           /\ pc \in {"resolve", "exit"}
    /\ FetchFailed => NoDownloadAndNoFileChange /\ pc = "exit"
    /\ ConflictingFilters =>
           /\ NoDownloadAndNoFileChange
           /\ pc \notin {"list"}
    /\ (MalformedReference \/ UnsupportedReference \/ ConflictingTags
        \/ FetchFailed \/ ConflictingFilters) =>
           /\ pc = "exit" => exit_code = 1
           /\ pc # "exit" => ENABLED Next

\* C7's case: --include and --exclude together with --download; the release
\* was fetched, and the run has ended.
C7_Witness ==
    /\ ConflictingFilters
    /\ args.download
    /\ release_data # NoData
    /\ release_data.assets # <<>>
    /\ pc = "exit"

\* The positions of the assets of as whose name is in names.
Named(as, names) == {i \in 1..Len(as) : as[i].name \in names}

\* sel is the subsequence of as at the positions K, order kept.
IsSubsequenceAt(sel, as, K) ==
    /\ Len(sel) = Cardinality(K)
    /\ \A k \in 1..Len(sel) :
           \E i \in K : Cardinality({j \in K : j <= i}) = k /\ sel[k] = as[i]

\* C8: right after filter_assets returned, the selected assets are the
\* order-preserving subsequence of the manifest's assets whose names are in
\* the include set (--include), or are not in the exclude set (--exclude), or
\* the manifest's assets themselves (no filter); and with at most one of the
\* two options given, whatever names it holds, the filter error is not raised.
C8_FilterSelectsSubsequence ==
    /\ pc = "list" =>
           IF args.include # {}
           THEN IsSubsequenceAt(assets, release_data.assets,
                                Named(release_data.assets, args.include))
           ELSE IF args.exclude # {}
           THEN IsSubsequenceAt(assets, release_data.assets,
                                (1..Len(release_data.assets))
                                \ Named(release_data.assets, args.exclude))
           ELSE assets = release_data.assets
    /\ ~ConflictingFilters =>
           ~Printed("Error: --include and --exclude are mutually exclusive.", "")

\* C8's case: --include names the second of two assets and a name that no
\* asset has; the selection is that one asset.
C8_Witness ==
    /\ pc = "list"
    /\ Len(release_data.assets) = 2
    /\ args.include = {release_data.assets[2].name, NoSuchName}
    /\ assets = <<release_data.assets[2]>>

\* C9: with --include and --exclude both given, the selection is never used:
\* the run does not get past filter_assets, and once filter_assets has run it
\* has ended with the mutually-exclusive error and exit status 1.
C9_BothFiltersAlwaysFail ==
    ConflictingFilters =>
        /\ pc \notin {"list"} \cup DownloadSteps
        /\ assets \in {<<>>, release_data.assets}
        /\ (pc = "exit" /\ release_data # NoData) =>
               /\ exit_code = 1
               /\ Printed("Error: --include and --exclude are mutually exclusive.", "")

\* C9's case: both filters name assets of a two-asset manifest.
C9_Witness ==
    /\ ConflictingFilters
    /\ Len(release_data.assets) = 2
    /\ args.include = {release_data.assets[1].name}
    /\ args.exclude = {release_data.assets[2].name}
    /\ pc = "exit"

\* The marker that precedes an embedded tag: releases/tag/T in a web-style
\* reference, releases/tags/T in an API-style one.
Marker == IF args.url.style = WebPrefix THEN "tag" ELSE "tags"

\* The tag the reference embeds after owner/repo; <<>> when it embeds none.
EmbeddedTag ==
    LET found == {T \in Tags : EmbedsAt(args.url.segs, 3, Marker, T)}
    IN  IF found = {} THEN <<>> ELSE CHOOSE T \in found : TRUE

\* A reference of one of the two accepted formats: owner/repo, both named,
\* then nothing, or a trailing slash, or the embedded tag, or (API-style)
\* releases/latest.
AcceptedFormat ==
    LET segs == args.url.segs
    IN  /\ args.url.style \in {ApiPrefix, WebPrefix}
        /\ Len(segs) >= 2
        /\ segs[1] # "" /\ segs[2] # ""
        /\ {segs[1], segs[2]} \cap {"releases", "tag", "tags", "latest"} = {}
        /\ \/ SubSeq(segs, 3, Len(segs)) \in {<<>>, <<"">>}
           \/ EmbeddedTag # <<>>
           \/ /\ args.url.style = ApiPrefix
              /\ SubSeq(segs, 3, Len(segs)) = <<"releases", "latest">>

\* C10: the release request of an accepted reference targets
\* repos/{owner}/{repo}/releases/tags/{tag} when the reference embeds a tag or
\* --release gives one, and releases/latest when neither does. The code does
\* not keep this for an API-style reference: the tag it embeds is ignored.
C10_RequestTargetsTheTag ==
    LET tag == IF EmbeddedTag # <<>> THEN EmbeddedTag ELSE args.release
    IN  AcceptedFormat =>
            \A k \in 1..Len(net) :
                net[k].kind = "release" =>
                    net[k].target =
                        <<args.url.segs[1], args.url.segs[2], "releases">>
                        \o (IF tag # <<>> THEN <<"tags">> \o tag ELSE <<"latest">>)

\* --------------------------------------------------------------- C11-C20
\* The reference was accepted: resolution built an api_url.
Accepted == api_url # <<>>

\* Fewer than two segments after the prefix, or an empty one in the owner or
\* the repo position.
LacksOwnerOrRepo ==
    LET segs == Parts(args.url)
    IN  Len(segs) < 2 \/ segs[1] = "" \/ segs[2] = ""

\* C11: an accepted reference has a non-empty owner and a non-empty repo, the
\* first two segments after the prefix, and the release request names them; a
\* reference with fewer than two segments, or with an empty owner or repo
\* segment, is rejected before any request. The code does not keep this:
\* https://github.com/acme/ is accepted with the repo "".
C11_OwnerAndRepoNonEmpty ==
    /\ Accepted =>
           /\ ~LacksOwnerOrRepo
           /\ SubSeq(api_url, 1, 2) = SubSeq(Parts(args.url), 1, 2)
    /\ LacksOwnerOrRepo => (net = <<>> /\ pc \in {"resolve", "exit"})

C13_RangedOnlyWhenSmaller ==
    pc = "urlopen" =>
        LET file == fs[target_path]
            size == Len(file.data)
        IN  /\ (file.exists /\ size < asset.size) =>
                   (dl.ranged /\ dl.existing_size = size /\ dl.mode = "ab")
            /\ (~file.exists \/ size > asset.size) =>
                   (~dl.ranged /\ dl.mode = "wb")

\* A release JSON of an unexpected structure: no tag_name, or an asset record
\* that lacks a key.
Malformed(data) ==
    \/ ~data.tag_name
    \/ \E i \in 1..Len(data.assets) : data.assets[i].keys # AssetKeys

\* C14: when the release JSON is malformed no asset of it is downloaded. The
\* code does not keep this: an asset record without browser_download_url
\* raises KeyError when its turn comes, after the assets before it were
\* downloaded.
C14_MalformedManifestDownloadsNothing ==
    Malformed(server) =>
        /\ \A k \in 1..Len(net) : net[k].kind # "download"
        /\ fs = fs0

ReleaseRequests == {k \in 1..Len(net) : net[k].kind = "release"}

\* The place in the selected list of the asset a download request is for.
Position(k) == CHOOSE i \in 1..Len(assets) : <<assets[i].name>> = net[k].target

\* The outcomes download_file_with_progress returns with.
Final == {"AlreadyComplete", "Completed", "SizeMismatch", "TransferFailed"}

\* C15 as it is stated: every run that has ended made exactly one release
\* request. A run whose reference is refused at resolution makes none.
C15_OneReleaseRequestInEveryRun ==
    pc = "exit" => Cardinality(ReleaseRequests) = 1

\* C15, amended: a run whose reference is accepted makes exactly one release
\* request, a run whose reference is refused makes no request at all; the
\* release request precedes every download request; download requests follow
\* the order of the selected assets, at most one for each; an asset is
\* requested only after every asset before it has reached its outcome; and
\* there is no download request without --download.
C15_RequestsAreSequential ==
    /\ \A k \in ReleaseRequests : k = 1
    /\ pc = "exit" =>
           IF Accepted THEN Cardinality(ReleaseRequests) = 1 ELSE net = <<>>
    /\ \A k \in 2..Len(net) :
           /\ net[k].kind = "download"
           /\ \E i \in 1..Len(assets) : <<assets[i].name>> = net[k].target
           /\ \A l \in 2..(k - 1) : Position(l) < Position(k)
           /\ \A j \in 1..(Position(k) - 1) : results[j].outcome \in Final
    /\ ~args.download => Len(net) <= 1

\* C15's case: a batch of two in which the first asset's request failed, was
\* not repeated, and the second asset was requested after it.
C15_Witness ==
    /\ pc = "exit"
    /\ Len(net) = 3
    /\ Len(results) = 2
    /\ results[1].outcome = "TransferFailed"
    /\ results[2].outcome = "Completed"
    /\ net[2].target = <<assets[1].name>>
    /\ net[3].target = <<assets[2].name>>

\* The bytes of the body read so far.
Streamed == dl.body - dl.remaining

\* After a chunk: bytes-so-far and percent as the progress line shows them.
ProgressIsOfTheWholeFile ==
    (pc = "stream" /\ Streamed > 0) =>
        /\ dl.bytes_so_far = dl.existing_size + Streamed
        /\ dl.existing_size + dl.cl > 0
        /\ dl.percent = (dl.bytes_so_far * 100) \div (dl.existing_size + dl.cl)
        /\ dl.body = dl.cl =>
               /\ dl.percent <= 100
               /\ dl.remaining = 0 => dl.percent = 100

\* From one chunk to the next of a body of exactly Content-Length bytes.
ProgressNeverFallsBack ==
    (pc = "stream" /\ pc' = "stream" /\ dl.body = dl.cl) => dl'.percent >= dl.percent

\* C16: after every chunk, of a fresh and of a resumed download, bytes-so-far
\* is the pre-existing size plus the bytes streamed so far and percent is
\* bytes-so-far over pre-existing size plus Content-Length; when the body is
\* exactly Content-Length bytes percent never decreases, never exceeds 100 and
\* is 100 after the last chunk.
C16_ProgressAgainstFullSize ==
    []ProgressIsOfTheWholeFile /\ [][ProgressNeverFallsBack]_vars

\* C16's case: a resumed download of more than one chunk, after its last chunk.
C16_Witness ==
    /\ pc = "stream"
    /\ dl.ranged /\ dl.existing_size > 0
    /\ dl.body = dl.cl /\ dl.cl > ChunkBytes
    /\ dl.remaining = 0
    /\ dl.bytes_so_far = dl.existing_size + dl.cl
    /\ dl.percent = 100

\* The invocation before this one ended the asset's download in
\* TransferFailed or SizeMismatch, and a file is on disk.
RetryOfFailedDownload ==
    /\ runs >= 2
    /\ prev # <<>>
    /\ prev[1].outcome \in {"TransferFailed", "SizeMismatch"}
    /\ fs0[assets[1].name].exists

\* C17: the invocation after one that ended in TransferFailed or SizeMismatch
\* and left a file on disk does not skip the asset and does not start over: its
\* one request for the asset is ranged from the size of that file, and the
\* file is appended to, what was on disk staying in place.
C17_RetryResumesFromDisk ==
    (assets # <<>> /\ RetryOfFailedDownload) =>
        LET n == assets[1].name
            left == fs0[n].data
        IN  /\ \A k \in DownloadRequests(n) : net[k].range = Len(left)
            /\ pc \in {"urlopen", "open", "stream", "verify"} =>
                   (dl.ranged /\ dl.mode = "ab" /\ dl.existing_size = Len(left))
            /\ (results # <<>> /\ results[1].outcome \notin {"NotAttempted", "Started"}) =>
                   Cardinality(DownloadRequests(n)) = 1
            /\ IsPrefix(left, fs[n].data)

\* C17's case: after a size mismatch the next invocation asked for the bytes
\* from the end of the file on and appended them.
C17_Witness ==
    /\ assets # <<>> /\ RetryOfFailedDownload
    /\ prev[1].outcome = "SizeMismatch"
    /\ Len(net) = 2
    /\ net[2].range = Len(fs0[assets[1].name].data)
    /\ net[2].range > 0
    /\ Len(fs[assets[1].name].data) > net[2].range
    /\ results[1].outcome = "Completed"
    /\ pc = "exit"

\* C18: when a ranged request is answered 200 with the full content, the file
\* after the transfer is that body alone. The code does not keep this: it
\* appends the full body after the bytes that were on disk.
C18_FullContentRestartsTheFile ==
    (pc = "verify" /\ dl.ranged /\ dl.status = 200 /\ dl.body = dl.cl /\ dl.cl > 0) =>
        fs[target_path].data = Repeat(1, dl.body)

\* C19: no chunk is processed with a total of 0: no download ends in an
\* uncaught division by zero. The code does not keep this: with no
\* Content-Length, or one of 0, and nothing on disk, the first chunk divides
\* by zero.
C19_NoDivisionByZero ==
    /\ uncaught # "ZeroDivisionError"
    /\ \A i \in 1..Len(results) : results[i].fault # "progress"

\* The asset's download did not end in Completed or AlreadyComplete.
Failing(rs) == rs # <<>> /\ rs[1].outcome \notin {"Completed", "AlreadyComplete"}

\* C20: against a server that honours ranges and completes every transfer,
\* repeated invocations reach the declared size on disk and then ask for
\* nothing; in particular, for an asset of a declared size above 0, no
\* invocation that fails is followed by one that fails again and leaves the
\* file exactly as it found it, for from there every further invocation does
\* the same. The code does not keep this: a file larger than the declared
\* size is asked for from its end on, refused, and left as it is, on every
\* invocation.
C20_RepeatedInvocationsConverge ==
    (/\ honest /\ runs >= 2 /\ pc = "exit"
     /\ Failing(prev) /\ Failing(results)
     /\ server.assets[1].size > 0) =>
        fs # fs0

====
